---- MODULE Spec2Model ----
(***************************************************************************)
(* State-machine model of the modal text editor (src/src/editor/editor.rs, *)
(* src/src/util/keymap.rs, src/src/util/display.rs, src/src/macros.rs).    *)
(*                                                                         *)
(* A line of text is a sequence of one-character strings, the buffer a     *)
(* sequence of lines, a file a sequence of bytes (with "\n" separators).   *)
(* A key event is a record [code, modifiers]; code is either a character   *)
(* (KeyCode::Char) or one of the named codes.  Rows and columns are kept   *)
(* 0-based as in the source; TLA+ sequences are 1-based, so line y of the  *)
(* buffer is buffer[y + 1].                                                *)
(*                                                                         *)
(* The operators below thread a record e holding the whole editor state    *)
(* through the code of one main-loop iteration.  e.panicked records a Rust *)
(* panic (index out of bounds, arithmetic overflow in a build with         *)
(* overflow checks): once set, the remaining code of the iteration is      *)
(* skipped and the process has ended.  e.err is the Err(..) a function is  *)
(* returning with `?`, "" when it returns Ok.                              *)
(***************************************************************************)
EXTENDS Integers, Sequences, FiniteSets, TLC

\* ---------------------------------------------------------------- bounds
MaxLines == 3
MaxEditLines == 3
MaxLineLen == 1
MaxQueue == 1
MaxCommandLines == 2
MaxAhead == 3
MaxDelta == 2
MaxJump == 6
MaxWindow == 2

\* Terminal size reported by terminal::size() at Display::new.
TermCols == 80
TermRows == 24

\* The rows of a terminal window too short for the buffer.
SmallRows == 2

U16 == 65536

\* Option<T>: None is the empty sequence, Some(v) the one-element sequence.
None == <<>>

Some(v) == <<v>>

Unwrap(o) == o[1]

Min(a, b) == IF a < b THEN a ELSE b

\* ------------------------------------------------------------ key events
NamedCodes == {"Enter", "Esc", "Backspace", "Delete"}

Digits == {"0", "1", "2", "3", "4", "5", "6", "7", "8", "9"}

Key(c) == [code |-> c, modifiers |-> {}]

Ctrl(c) == [code |-> c, modifiers |-> {"CONTROL"}]

Alt(c) == [code |-> c, modifiers |-> {"ALT"}]

IsChar(event) == event.code \notin NamedCodes

DigitValue(c) ==
    CASE c = "0" -> 0 [] c = "1" -> 1 [] c = "2" -> 2 [] c = "3" -> 3
      [] c = "4" -> 4 [] c = "5" -> 5 [] c = "6" -> 6 [] c = "7" -> 7
      [] c = "8" -> 8 [] c = "9" -> 9

\* keymap.rs event_to_digit: any Char(c) with c an ASCII digit, whatever the
\* modifiers; None otherwise.
event_to_digit(event) ==
    IF IsChar(event) /\ event.code \in Digits THEN Some(DigitValue(event.code)) ELSE None

is_whitespace(c) == c \in {" ", "\t", "\n", "\r"}

\* ------------------------------------------------------------ the keymap
\* macros.rs default_keybinds: one entry per add_keybind! call, in order.
default_keybinds ==
    << [modes |-> {"NORMAL"}, sequence |-> <<Key("k")>>, action |-> "k"],
       [modes |-> {"NORMAL"}, sequence |-> <<Key("j")>>, action |-> "j"],
       [modes |-> {"NORMAL"}, sequence |-> <<Key("h")>>, action |-> "h"],
       [modes |-> {"NORMAL"}, sequence |-> <<Key("l")>>, action |-> "l"],
       [modes |-> {"NORMAL"}, sequence |-> <<Key("i")>>, action |-> "i"],
       [modes |-> {"NORMAL"}, sequence |-> <<Key(":")>>, action |-> ":"],
       [modes |-> {"INSERT", "COMMAND"}, sequence |-> <<Key("Esc")>>, action |-> "ic_Esc"],
       [modes |-> {"NORMAL"}, sequence |-> <<Key("Enter")>>, action |-> "n_CR"],
       [modes |-> {"NORMAL"}, sequence |-> <<Key("$")>>, action |-> "$"],
       [modes |-> {"NORMAL"}, sequence |-> <<Key("_")>>, action |-> "_"],
       [modes |-> {"NORMAL"}, sequence |-> <<Key("g"), Key("g")>>, action |-> "gg"],
       [modes |-> {"NORMAL"}, sequence |-> <<Key("G")>>, action |-> "G"],
       [modes |-> {"NORMAL"}, sequence |-> <<Key("o")>>, action |-> "o"],
       [modes |-> {"NORMAL"}, sequence |-> <<Key("O")>>, action |-> "O"],
       [modes |-> {"COMMAND"}, sequence |-> <<Key("Enter")>>, action |-> "c_CR"] >>

\* Keymap.root: the bindings registered with add_keybind, as a list of the
\* shape of default_keybinds.  The editor registers default_keybinds.
VARIABLE keybinds

IsPrefix(p, s) == Len(p) <= Len(s) /\ SubSeq(s, 1, Len(p)) = p

\* A trie node is named by its mode and the path of key events from the root.
\* Keymap::add_keybind / KeyNode::insert create the node of every prefix of a
\* registered sequence.
KeyNode(mode, path) == [mode |-> mode, path |-> path]

\* KeyNode.children.get(&event): the child node, or None.
children_get(node, event) ==
    IF \E i \in 1..Len(keybinds) :
          /\ node.mode \in keybinds[i].modes
          /\ IsPrefix(Append(node.path, event), keybinds[i].sequence)
    THEN Some(KeyNode(node.mode, Append(node.path, event)))
    ELSE None

\* KeyNode.action: the action of the last binding registered for exactly this
\* path in this mode (KeyNode::insert overwrites self.action), or None.
node_action(node) ==
    LET hits == {i \in 1..Len(keybinds) :
                    /\ node.mode \in keybinds[i].modes
                    /\ keybinds[i].sequence = node.path}
    IN IF hits = {} THEN None
       ELSE Some(keybinds[CHOOSE i \in hits : \A j \in hits : j <= i].action)

\* KeyNode::is_leaf: the node has no children.
node_is_leaf(node) ==
    ~ \E i \in 1..Len(keybinds) :
          /\ node.mode \in keybinds[i].modes
          /\ IsPrefix(node.path, keybinds[i].sequence)
          /\ Len(keybinds[i].sequence) > Len(node.path)

\* repeats that ignores the numeric prefix.
repeats_once(e) == 1

\* Keymap::repeats: numeric_prefix.take().unwrap_or(1); the caller stores None.
repeats(e) == IF e.numeric_prefix = None THEN 1 ELSE Unwrap(e.numeric_prefix)

\* Keymap::is_leaf
is_leaf(e) == IF e.current = None THEN FALSE ELSE node_is_leaf(Unwrap(e.current))

\* Keymap::get_action
get_action(e) == IF e.current = None THEN None ELSE node_action(Unwrap(e.current))

\* Keymap::is_empty
is_empty(e) == e.current = None

\* Keymap::clear
clear(e) == [e EXCEPT !.current = None]

\* Keymap::traverse.  Returns the state with e.unresolved set to the returned
\* Option<KeyEvent>.  root.get(mode).unwrap() panics for a mode with no trie.
traverse(e, event) ==
    IF e.panicked THEN e
    ELSE IF e.current = None /\ e.mode = "VISUAL" THEN [e EXCEPT !.panicked = TRUE]
    ELSE
    LET current_node == IF e.current # None THEN Unwrap(e.current) ELSE KeyNode(e.mode, <<>>)
        next_node == children_get(current_node, event)
    IN IF next_node = None
       THEN IF event_to_digit(event) # None
            THEN [e EXCEPT !.numeric_prefix = event_to_digit(event), !.unresolved = None]
            ELSE [e EXCEPT !.unresolved = Some(event)]
       ELSE [e EXCEPT !.current = next_node, !.unresolved = None]

\* ------------------------------------------------------- Vec and String
\* String::insert(idx, c) / Vec::insert(idx, v): defined for idx <= len.
InsertAt(seq, idx, v) == SubSeq(seq, 1, idx) \o <<v>> \o SubSeq(seq, idx + 1, Len(seq))

\* String::remove(idx) / Vec::remove(idx): defined for idx < len.
RemoveAt(seq, idx) == SubSeq(seq, 1, idx) \o SubSeq(seq, idx + 2, Len(seq))

Panic(e) == [e EXCEPT !.panicked = TRUE]

\* ------------------------------------------------------------ the cursor
\* The closure `saturate` of Cursor::move_by: u16 saturating_sub / saturating_add.
saturate(pos, delta) ==
    IF delta < 0
    THEN (IF pos + delta < 0 THEN 0 ELSE pos + delta)
    ELSE Min(pos + delta, U16 - 1)

\* Cursor::validate_cursor.  buffer[position.1] panics on an empty buffer.
validate_cursor(e) ==
    IF e.panicked THEN e
    ELSE
    LET len == Len(e.buffer)
        y == IF e.position[2] >= len % U16
             THEN (IF len = 0 THEN 0 ELSE len - 1) % U16
             ELSE e.position[2]
    IN IF y >= len
       THEN Panic([e EXCEPT !.position = <<e.position[1], y>>])
       ELSE [e EXCEPT !.position = <<Min(e.max_column, Len(e.buffer[y + 1]) % U16), y>>]

\* move_by with the sticky column taken from the live column on every move,
\* vertical ones included.
move_by_always_sticky(e, dx, dy) ==
    IF e.panicked THEN e
    ELSE
    LET x == IF dx # 0 THEN saturate(e.position[1], dx) ELSE e.position[1]
        y == IF dy # 0 THEN saturate(e.position[2], dy) ELSE e.position[2]
    IN validate_cursor([e EXCEPT !.position = <<x, y>>, !.max_column = x])

\* Cursor::move_by
move_by(e, dx, dy) ==
    IF e.panicked THEN e
    ELSE
    LET x == IF dx # 0 THEN saturate(e.position[1], dx) ELSE e.position[1]
        y == IF dy # 0 THEN saturate(e.position[2], dy) ELSE e.position[2]
    IN validate_cursor([e EXCEPT !.position = <<x, y>>,
                                 !.max_column = IF dx # 0 THEN x ELSE @])

\* Cursor::move_x
move_x(e, new_x) ==
    IF e.panicked THEN e
    ELSE validate_cursor([e EXCEPT !.position = <<new_x, e.position[2]>>,
                                   !.max_column = new_x])

\* Cursor::move_y
move_y(e, new_y) ==
    IF e.panicked THEN e
    ELSE validate_cursor([e EXCEPT !.position = <<e.position[1], new_y>>])

\* ----------------------------------------------------------- the display
\* Display::validate_offset, in u16 arithmetic: an overflowing + or - panics
\* in a build with overflow checks and wraps otherwise.  The first branch
\* assigns offset.1 from size.0, as the source does.
validate_offset(e) ==
    IF e.panicked THEN e
    ELSE
    LET px == e.position[1]
        py == e.position[2]
        s1 == e.offset[1] + e.size[1]
        c1 == px >= s1 % U16
        d1 == py - e.size[1]
        oy1 == IF c1 THEN (d1 + 1) % U16 ELSE e.offset[2]
        s2 == oy1 + e.size[2]
        c2 == py >= s2 % U16
        d2 == py - e.size[2]
        oy2 == IF c2 THEN (d2 + 1) % U16 ELSE oy1
        ox == IF px < e.offset[1] THEN px ELSE e.offset[1]
        oy == IF py < oy2 THEN py ELSE oy2
        overflow == \/ s1 >= U16
                    \/ c1 /\ (d1 < 0 \/ d1 + 1 >= U16)
                    \/ s2 >= U16
                    \/ c2 /\ (d2 < 0 \/ d2 + 1 >= U16)
    IN IF overflow /\ e.overflow_checks
       THEN Panic(e)
       ELSE [e EXCEPT !.offset = <<ox, oy>>]

\* Display::cursor_move_by
cursor_move_by(e, dx, dy) == validate_offset(move_by(e, dx, dy))

\* Display::cursor_move_x
cursor_move_x(e, new_x) == validate_offset(move_x(e, new_x))

\* Display::cursor_move_y
cursor_move_y(e, new_y) == validate_offset(move_y(e, new_y))

\* ------------------------------------------------------------- fallback
\* Editor::handle_unresolved_key_event, INSERT mode, KeyCode::Char(c).
insert_char(e, c) ==
    LET x == e.position[1]
        y == e.position[2]
    IN IF y >= Len(e.buffer) \/ x > Len(e.buffer[y + 1])
       THEN Panic(e)
       ELSE cursor_move_by([e EXCEPT !.buffer[y + 1] = InsertAt(@, x, c)], 1, 0)

\* Editor::handle_unresolved_key_event, INSERT mode, KeyCode::Enter.
insert_enter(e) ==
    LET x == e.position[1]
        y == e.position[2]
    IN IF y >= Len(e.buffer) \/ x > Len(e.buffer[y + 1])
       THEN Panic(e)
       ELSE LET line == e.buffer[y + 1]
                remaining == SubSeq(line, x + 1, Len(line))
                cut == [e.buffer EXCEPT ![y + 1] = SubSeq(line, 1, x)]
            IN cursor_move_by([e EXCEPT !.buffer = InsertAt(cut, y + 1, remaining)], -x, 1)

\* insert_delete without the `y + 1 < buffer.len()` guard of the join: at the
\* end of the last line Vec::remove is out of range.
insert_delete_unguarded(e) ==
    LET x == e.position[1]
        y == e.position[2]
    IN IF y >= Len(e.buffer)
       THEN Panic(e)
       ELSE IF x < Len(e.buffer[y + 1]) % U16
       THEN [e EXCEPT !.buffer[y + 1] = RemoveAt(@, x)]
       ELSE IF y + 1 >= Len(e.buffer)
       THEN Panic(e)
       ELSE LET next_line == e.buffer[y + 2]
                removed == RemoveAt(e.buffer, y + 1)
            IN [e EXCEPT !.buffer = [removed EXCEPT ![y + 1] = @ \o next_line]]

\* Editor::handle_unresolved_key_event, INSERT mode, KeyCode::Delete.
insert_delete(e) ==
    LET x == e.position[1]
        y == e.position[2]
    IN IF y >= Len(e.buffer)
       THEN Panic(e)
       ELSE IF x < Len(e.buffer[y + 1]) % U16
       THEN [e EXCEPT !.buffer[y + 1] = RemoveAt(@, x)]
       ELSE IF y + 1 < Len(e.buffer) % U16
       THEN LET next_line == e.buffer[y + 2]
                removed == RemoveAt(e.buffer, y + 1)
            IN [e EXCEPT !.buffer = [removed EXCEPT ![y + 1] = @ \o next_line]]
       ELSE e

\* Editor::handle_unresolved_key_event, INSERT mode, KeyCode::Backspace.
insert_backspace(e) ==
    LET x == e.position[1]
        y == e.position[2]
    IN IF x > 0
       THEN IF y >= Len(e.buffer) \/ x - 1 >= Len(e.buffer[y + 1])
            THEN Panic(e)
            ELSE cursor_move_by([e EXCEPT !.buffer[y + 1] = RemoveAt(@, x - 1)], -1, 0)
       ELSE IF y > 0
       THEN IF y >= Len(e.buffer)
            THEN Panic(e)
            ELSE LET prev_line_len == Len(e.buffer[y]) % U16
                     current_line == e.buffer[y + 1]
                     removed == RemoveAt(e.buffer, y)
                 IN cursor_move_by(
                        [e EXCEPT !.buffer = [removed EXCEPT ![y] = @ \o current_line]],
                        prev_line_len, -1)
       ELSE e

\* Editor::handle_unresolved_key_event
handle_unresolved_key_event(e, unresolved) ==
    IF e.panicked THEN e
    ELSE IF e.mode = "COMMAND"
    THEN IF IsChar(unresolved)
         THEN [e EXCEPT !.command = Append(@, unresolved.code)]
         ELSE IF unresolved.code = "Backspace"
         THEN [e EXCEPT !.command = SubSeq(@, 1, Len(@) - 1)]
         ELSE e
    ELSE IF e.mode = "INSERT"
    THEN IF IsChar(unresolved) THEN insert_char(e, unresolved.code)
         ELSE IF unresolved.code = "Enter" THEN insert_enter(e)
         ELSE IF unresolved.code = "Delete" THEN insert_delete(e)
         ELSE IF unresolved.code = "Backspace" THEN insert_backspace(e)
         ELSE e
    ELSE e

\* ------------------------------------------------------------ file I/O
\* Vec<String>::join("\n"): the bytes save_file writes.
RECURSIVE join(_)
join(vec) ==
    IF Len(vec) = 0 THEN <<>>
    ELSE IF Len(vec) = 1 THEN vec[1]
    ELSE vec[1] \o <<"\n">> \o join(Tail(vec))

\* One line as BufRead::lines yields it: the terminating "\n" dropped, and a
\* "\r" before it.
StripCR(line) ==
    IF Len(line) > 0 /\ line[Len(line)] = "\r" THEN SubSeq(line, 1, Len(line) - 1) ELSE line

\* BufReader::lines().collect(): the lines of a file; a final "\n" ends the
\* last line and starts no new one, so an empty file has no line at all.
RECURSIVE lines(_)
lines(bytes) ==
    IF Len(bytes) = 0 THEN <<>>
    ELSE IF \E i \in 1..Len(bytes) : bytes[i] = "\n"
    THEN LET nl == CHOOSE i \in 1..Len(bytes) :
                      bytes[i] = "\n" /\ \A j \in 1..(i - 1) : bytes[j] # "\n"
         IN <<StripCR(SubSeq(bytes, 1, nl - 1))>> \o lines(SubSeq(bytes, nl + 1, Len(bytes)))
    ELSE <<bytes>>

\* Path::exists
exists(e, name) == name \in DOMAIN e.fs

\* Editor::load_file
load_file(e, name) ==
    IF e.panicked THEN e
    ELSE LET e1 == [e EXCEPT !.filename = Some(name)]
         IN IF ~exists(e1, name) THEN e1
            ELSE [e1 EXCEPT !.buffer = lines(e1.fs[name])]

\* Editor::save_file
save_file(e, name) ==
    IF e.panicked THEN e
    ELSE [e EXCEPT !.fs = [n \in DOMAIN e.fs \cup {name} |->
                              IF n = name THEN join(e.buffer) ELSE e.fs[n]],
                   !.filename = Some(name)]

\* ------------------------------------------------------------- actions
\* str::split_whitespace().collect()
RECURSIVE split_whitespace(_)
split_whitespace(str) ==
    IF Len(str) = 0 THEN <<>>
    ELSE IF is_whitespace(str[1]) THEN split_whitespace(Tail(str))
    ELSE LET ends == {i \in 1..Len(str) : is_whitespace(str[i])}
             upto == IF ends = {} THEN Len(str) + 1
                     ELSE CHOOSE i \in ends : \A j \in ends : i <= j
         IN <<SubSeq(str, 1, upto - 1)>> \o split_whitespace(SubSeq(str, upto, Len(str)))

Err(e, message) == [e EXCEPT !.err = message]

\* macros.rs: the "$" binding.  `len() as u16 - 1` overflows on an empty line.
action_dollar(e) ==
    LET y == e.position[2]
    IN IF y >= Len(e.buffer) THEN Panic(e)
       ELSE LET len == Len(e.buffer[y + 1]) % U16
            IN IF len = 0 /\ e.overflow_checks THEN Panic(e)
               ELSE move_x(e, (len - 1) % U16)

\* macros.rs: the "_" binding.
action_underscore(e) ==
    LET y == e.position[2]
    IN IF y >= Len(e.buffer) THEN Panic(e)
       ELSE LET current_line == e.buffer[y + 1]
                found == {i \in 1..Len(current_line) : ~is_whitespace(current_line[i])}
            IN IF found = {} THEN e
               ELSE move_x(e, ((CHOOSE i \in found : \A j \in found : i <= j) - 1) % U16)

\* editor.mode = Mode::INSERT, the last statement of "o" and "O".
enter_insert(e) == IF e.panicked THEN e ELSE [e EXCEPT !.mode = "INSERT"]

\* macros.rs: the "o" binding.
action_o(e) ==
    LET at == e.position[2] + 1
    IN IF at > Len(e.buffer) THEN Panic(e)
       ELSE enter_insert(move_by([e EXCEPT !.buffer = InsertAt(@, at, <<>>)], 0, 1))

\* macros.rs: the "O" binding.
action_O(e) ==
    LET at == e.position[2]
    IN IF at > Len(e.buffer) THEN Panic(e)
       ELSE enter_insert(move_by([e EXCEPT !.buffer = InsertAt(@, at, <<>>)], 0, 0))

\* The COMMAND-mode "<CR>" binding with the command string taken only when
\* the command succeeds: a failed command leaves it in place.
action_c_CR_keep_on_error(e) ==
    IF Len(e.command) = 0 THEN [e EXCEPT !.mode = "NORMAL"]
    ELSE
    LET words == split_whitespace(e.command)
        verb == IF Len(words) >= 1 THEN Some(words[1]) ELSE None
        arg == IF Len(words) >= 2 THEN Some(words[2]) ELSE None
        target == IF arg # None THEN arg ELSE e.filename
        done(e2) == IF e2.panicked \/ e2.err # "" THEN e2
                    ELSE [e2 EXCEPT !.mode = "NORMAL", !.command = <<>>]
    IN IF verb = Some(<<"q">>) THEN done([e EXCEPT !.stop = TRUE])
       ELSE IF verb = Some(<<"e">>)
       THEN IF arg # None THEN done(load_file(e, Unwrap(arg)))
            ELSE Err(e, "No filename specified")
       ELSE IF verb = Some(<<"w">>)
       THEN IF target # None THEN done(save_file(e, Unwrap(target)))
            ELSE Err(e, "No filename specified")
       ELSE IF verb = Some(<<"w", "q">>)
       THEN IF target # None
            THEN done([save_file(e, Unwrap(target)) EXCEPT !.stop = TRUE])
            ELSE Err(e, "No filename specified")
       ELSE done(e)

\* macros.rs: the COMMAND-mode "<CR>" binding.
action_c_CR(e) ==
    IF Len(e.command) = 0 THEN [e EXCEPT !.mode = "NORMAL"]
    ELSE
    LET words == split_whitespace(e.command)
        e1 == [e EXCEPT !.command = <<>>]
        verb == IF Len(words) >= 1 THEN Some(words[1]) ELSE None
        arg == IF Len(words) >= 2 THEN Some(words[2]) ELSE None
        target == IF arg # None THEN arg ELSE e1.filename
        done(e2) == IF e2.panicked \/ e2.err # "" THEN e2
                    ELSE [e2 EXCEPT !.mode = "NORMAL", !.command = <<>>]
    IN IF verb = Some(<<"q">>) THEN done([e1 EXCEPT !.stop = TRUE])
       ELSE IF verb = Some(<<"e">>)
       THEN IF arg # None THEN done(load_file(e1, Unwrap(arg)))
            ELSE Err(e1, "No filename specified")
       ELSE IF verb = Some(<<"w">>)
       THEN IF target # None THEN done(save_file(e1, Unwrap(target)))
            ELSE Err(e1, "No filename specified")
       ELSE IF verb = Some(<<"w", "q">>)
       THEN IF target # None
            THEN done([save_file(e1, Unwrap(target)) EXCEPT !.stop = TRUE])
            ELSE Err(e1, "No filename specified")
       ELSE done(e1)

\* The closure bound by add_keybind!, by the name default_keybinds gives it.
apply_action(e, action) ==
    IF e.panicked THEN e
    ELSE CASE action = "k" -> move_by(e, 0, -1)
           [] action = "j" -> move_by(e, 0, 1)
           [] action = "h" -> move_by(e, -1, 0)
           [] action = "l" -> move_by(e, 1, 0)
           [] action = "i" -> [e EXCEPT !.mode = "INSERT"]
           [] action = ":" -> [e EXCEPT !.mode = "COMMAND"]
           [] action = "ic_Esc" -> [e EXCEPT !.mode = "NORMAL", !.command = <<>>]
           [] action = "n_CR" -> [e EXCEPT !.error = None]
           [] action = "$" -> action_dollar(e)
           [] action = "_" -> action_underscore(e)
           [] action = "gg" -> move_y(e, 0)
           [] action = "G" -> move_y(e, Len(e.buffer) % U16)
           [] action = "o" -> action_o(e)
           [] action = "O" -> action_O(e)
           [] action = "c_CR" -> action_c_CR(e)
           [] action = "fail" -> Err(e, "failed")

\* ----------------------------------------------------------- dispatch
Failed(e) == e.panicked \/ e.err # ""

\* The `for _ in 0..repeats` loop of execute_keymap_action: `?` leaves the
\* loop at the first Err.  e.ran lists the invocations made.
RECURSIVE run_action(_, _, _)
run_action(e, action, n) ==
    IF n = 0 \/ Failed(e) THEN e
    ELSE run_action(apply_action([e EXCEPT !.ran = Append(@, action)], action),
                    action, n - 1)

\* The body of execute_keymap_action up to keymap.clear(): repeats() is
\* evaluated (and takes the numeric prefix) only when the node has an action.
invoke(e) ==
    IF get_action(e) = None THEN e
    ELSE run_action([e EXCEPT !.numeric_prefix = None], Unwrap(get_action(e)), repeats(e))

\* self.keymap.clear() at the end of execute_keymap_action: not reached when
\* an invocation returned Err.
clear_after(e) == IF Failed(e) THEN e ELSE clear(e)

\* What an execute_keymap_action call made at `site` in state e left behind.
record_call(e, site, after) ==
    [after EXCEPT !.calls = Append(@, [site |-> site, node |-> e.current,
                                       action |-> get_action(e), result |-> after.err,
                                       current |-> after.current])]

\* execute_keymap_action that clears the pointer only after running an action.
execute_keymap_action_lazy_clear(e, site) ==
    IF Failed(e) THEN e
    ELSE record_call(e, site, IF get_action(e) = None THEN e ELSE clear_after(invoke(e)))

\* Editor::execute_keymap_action.  `site` names the call site.
execute_keymap_action(e, site) ==
    IF Failed(e) THEN e
    ELSE record_call(e, site, clear_after(invoke(e)))

\* handle_key_event, lines 119-122: the second traverse, after the forced
\* resolution of a dead end.
retraverse(e, event) == IF Failed(e) THEN e ELSE traverse(e, event)

\* handle_key_event, lines 119-122: a first traverse that returned the event
\* forces a resolution and a second traverse from root.
dead_end(e, event) ==
    IF ~Failed(e) /\ e.unresolved # None
    THEN retraverse(execute_keymap_action(e, "dead_end"), event)
    ELSE e

\* handle_key_event, lines 124-126.
leaf_check(e) ==
    IF ~Failed(e) /\ is_leaf(e) THEN execute_keymap_action(e, "leaf") ELSE e

\* unresolved_fallback that passes every unresolved event on, whatever its
\* modifiers.
unresolved_fallback_unfiltered(e) ==
    IF ~Failed(e) /\ e.unresolved # None
    THEN [handle_unresolved_key_event(e, Unwrap(e.unresolved))
              EXCEPT !.fallback = e.unresolved]
    ELSE e

\* handle_key_event, lines 128-132: an unresolved event without ALT and
\* CONTROL goes to the fallback.
unresolved_fallback(e) ==
    IF /\ ~Failed(e) /\ e.unresolved # None
       /\ Unwrap(e.unresolved).modifiers \cap {"ALT", "CONTROL"} = {}
    THEN [handle_unresolved_key_event(e, Unwrap(e.unresolved))
              EXCEPT !.fallback = e.unresolved]
    ELSE e

\* handle_key_event, lines 134-135: last_key_time = now, dirty = true.
touch(e) == IF Failed(e) THEN e ELSE [e EXCEPT !.elapsed = FALSE, !.dirty = TRUE]

\* Editor::handle_key_event, from try_recv on: the event was dequeued.
handle_event(e, event) ==
    touch(unresolved_fallback(leaf_check(dead_end(traverse(e, event), event))))

\* try_recv that takes the newest event of the channel instead of the oldest.
try_recv_newest(e) ==
    IF Failed(e) \/ Len(e.rx) = 0 THEN e
    ELSE handle_event([e EXCEPT !.rx = SubSeq(@, 1, Len(@) - 1),
                                !.event = Some(e.rx[Len(e.rx)])],
                      e.rx[Len(e.rx)])

\* handle_key_event, lines 113-116: try_recv returns at once on an empty
\* channel.
try_recv(e) ==
    IF Failed(e) \/ Len(e.rx) = 0 THEN e
    ELSE handle_event([e EXCEPT !.rx = Tail(@), !.event = Some(Head(e.rx))], Head(e.rx))

\* handle_key_event, line 110: dirty = true after the forced resolution.
mark_dirty(e) == IF Failed(e) THEN e ELSE [e EXCEPT !.dirty = TRUE]

\* handle_key_event without the timeout check.
handle_key_event_no_timeout(e) == try_recv(e)

\* Editor::handle_key_event.  e.elapsed stands for
\* last_key_time.elapsed().as_millis() > 1000.
handle_key_event(e) ==
    try_recv(IF e.elapsed /\ ~is_empty(e)
             THEN mark_dirty(execute_keymap_action(e, "timeout"))
             ELSE e)

\* Display::render, as far as the editor state goes: it writes to the
\* terminal only, and panics on an out-of-range slice or (with overflow
\* checks) on an underflowing subtraction.  No error banner of the program
\* contains a newline.
render_panics(e) ==
    LET max_lines == IF e.mode = "COMMAND" THEN e.size[2] - 1 ELSE e.size[2]
        shown == {i \in 1..Len(e.buffer) : i > e.offset[2] /\ i <= e.offset[2] + max_lines}
    IN \/ max_lines < 0
       \/ e.offset[2] > Len(e.buffer)
       \/ \E i \in shown : /\ Len(e.buffer[i]) > e.position[1]
                           /\ e.offset[1] > Len(e.buffer[i])
       \/ /\ e.mode # "COMMAND"
          /\ e.overflow_checks
          /\ \/ e.position[1] < e.offset[1]
             \/ e.position[1] - e.offset[1] + 6 >= U16
             \/ e.position[2] < e.offset[2]

render(e) == IF e.panicked THEN e ELSE IF render_panics(e) THEN Panic(e) ELSE e

\* report that assigns the banner from the result on every iteration
\* (self.error = result.err()): a successful iteration clears it.
report_overwrite(e) ==
    IF e.panicked THEN e
    ELSE IF e.err # ""
    THEN [e EXCEPT !.error = Some(e.err), !.dirty = TRUE, !.err = ""]
    ELSE [e EXCEPT !.error = None]

\* report that propagates the Err out of run (`?`) instead of storing it: the
\* loop ends.
report_propagate(e) ==
    IF ~e.panicked /\ e.err # ""
    THEN [e EXCEPT !.stop = TRUE, !.err = ""]
    ELSE e

\* Editor::run, lines 93-96: an Err of handle_key_event becomes the banner.
report(e) ==
    IF ~e.panicked /\ e.err # ""
    THEN [e EXCEPT !.error = Some(e.err), !.dirty = TRUE, !.err = ""]
    ELSE e

\* Editor::run, lines 98-101.
render_if_dirty(e) ==
    IF e.panicked THEN e
    ELSE IF e.dirty THEN [render(e) EXCEPT !.dirty = FALSE, !.rendered = TRUE]
    ELSE e

\* One iteration of the `while !self.stop` loop of Editor::run.
run_iteration(e) == render_if_dirty(report(handle_key_event(e)))

\* ------------------------------------------------------- the state machine
VARIABLES
    buffer,          \* Editor.buffer: Vec<String>
    error,           \* Editor.error: Option<String>, the banner
    command,         \* Editor.command
    filename,        \* Editor.filename: Option<String>
    dirty,           \* Editor.dirty
    stop,            \* Editor.stop
    mode,            \* Editor.mode
    position,        \* Display.cursor.position: (column, row)
    max_column,      \* Display.cursor.max_column, the sticky column
    offset,          \* Display.offset
    size,            \* Display.size
    current,         \* Keymap.current: None is the root of the mode's trie
    numeric_prefix,  \* Keymap.numeric_prefix
    rx,              \* the mpsc channel between the listener and the main loop
    elapsed,         \* last_key_time.elapsed().as_millis() > 1000
    fs,              \* the files on disk: name -> bytes
    overflow_checks, \* the build panics on integer overflow (debug profile)
    panicked,        \* the main thread panicked: the process is gone
    keys,            \* the key events the user types in this session
    text,            \* the characters the session's texts are made of
    rows,            \* the number of lines the session's buffer is bounded by
    ahead,           \* the number of events the session's user types ahead
    terminal,        \* the terminal: alternate screen, raw mode, whether the
                     \* process is gone, and how often Display was dropped
    task,            \* the spawned listener task, and whether the receiving
                     \* end of the channel still exists
    obs              \* what the step just taken did (observation only): for an
                     \* iteration of the main loop, the event it dequeued, the
                     \* execute_keymap_action calls it made, the action
                     \* invocations, the event it passed to the fallback,
                     \* whether it rendered

vars == <<buffer, error, command, filename, dirty, stop, mode, position, max_column,
          offset, size, current, numeric_prefix, rx, elapsed, fs, overflow_checks,
          panicked, keys, text, rows, ahead, terminal, task, keybinds, obs>>

NoObs == [iterated |-> FALSE, event |-> None, calls |-> <<>>, ran |-> <<>>,
          fallback |-> None, rendered |-> FALSE]

\* The editor as the record the operators above work on.
Editor ==
    [buffer |-> buffer, error |-> error, command |-> command, filename |-> filename,
     dirty |-> dirty, stop |-> stop, mode |-> mode, position |-> position,
     max_column |-> max_column, offset |-> offset, size |-> size, current |-> current,
     numeric_prefix |-> numeric_prefix, rx |-> rx, elapsed |-> elapsed, fs |-> fs,
     overflow_checks |-> overflow_checks, panicked |-> panicked, text |-> text, rows |-> rows,
     err |-> "", unresolved |-> None,
     event |-> None, calls |-> <<>>, ran |-> <<>>, fallback |-> None, rendered |-> FALSE]

\* The bounds of a session: the size and the characters of the buffer, the
\* command lines the user types and the file names they name.
\* The command lines the user types (and any prefix of them, while typing).
CommandLines ==
    {<<"q">>, <<"e">>, <<"e", " ", "f">>, <<"w">>, <<"w", " ", "f">>, <<"w", "q">>,
     <<"f">>, <<" ">>}

FileNames == {<<"f">>}

Bounded(e) ==
    /\ Len(e.buffer) <= e.rows
    /\ \A i \in 1..Len(e.buffer) :
          /\ Len(e.buffer[i]) <= MaxLineLen
          /\ \A j \in 1..Len(e.buffer[i]) : e.buffer[i][j] \in e.text
    /\ \E line \in CommandLines : IsPrefix(e.command, line)
    /\ DOMAIN e.fs \subseteq FileNames
    /\ e.filename \in {None} \cup {Some(n) : n \in FileNames}

\* The terminal once the editor is constructed: Display::new has entered the
\* alternate screen, setup has enabled raw mode.
Startup == [alternate |-> TRUE, raw |-> TRUE, exited |-> FALSE, drops |-> 0]

\* Editor::run, lines 83-90: the channel is created and the listener spawned
\* on the runtime.
Spawned == [listener |-> "running", receiver |-> TRUE]

\* Editor::new followed by default_keybinds.
InitEditor ==
    /\ buffer = << <<>> >>
    /\ error = None
    /\ command = <<>>
    /\ filename = None
    /\ dirty = TRUE
    /\ stop = FALSE
    /\ mode = "NORMAL"
    /\ position = <<0, 0>>
    /\ max_column = 0
    /\ offset = <<0, 0>>
    /\ current = None
    /\ numeric_prefix = None
    /\ rx = <<>>
    /\ elapsed = FALSE
    /\ panicked = FALSE
    /\ terminal = Startup
    /\ task = Spawned
    /\ obs = NoObs

NoFiles == [n \in {} |-> <<>>]

\* Sessions: what the user types, the characters of the texts, the files on
\* disk at start.
EditSession ==
    [keys |-> {Key("a"), Key("o"), Key("O"), Key("Enter"),
               Key("Esc"), Key("Backspace"), Key("Delete"), Ctrl("a"), Alt("a")},
     text |-> {"a"},
     rows |-> MaxEditLines,
     ahead |-> MaxQueue,
     size |-> <<TermCols, TermRows>>,
     files |-> {NoFiles},
     builds |-> {FALSE}]

ResolverSession ==
    [keys |-> {Key("g"), Key("x"), Key("j"), Key("k"), Key("0"), Key("2"), Key("i"),
               Key("Esc"), Key("o"), Key("$"), Ctrl("x")},
     text |-> {},
     rows |-> MaxLines,
     ahead |-> MaxQueue,
     size |-> <<TermCols, TermRows>>,
     files |-> {NoFiles},
     builds |-> BOOLEAN]

CommandSession ==
    [keys |-> {Key(":"), Key("e"), Key("w"), Key("q"), Key("f"), Key(" "), Key("Enter"),
               Key("Esc"), Key("Backspace"), Key("o")},
     text |-> {"a"},
     rows |-> MaxCommandLines,
     ahead |-> MaxQueue,
     size |-> <<TermCols, TermRows>>,
     files |-> {NoFiles, [n \in FileNames |-> <<>>], [n \in FileNames |-> <<"a">>]},
     builds |-> {FALSE}]

\* The user types ahead of the main loop.
TypeAheadSession ==
    [keys |-> {Key("g"), Key("j"), Key("2")},
     text |-> {},
     rows |-> 1,
     ahead |-> MaxAhead,
     size |-> <<TermCols, TermRows>>,
     files |-> {NoFiles},
     builds |-> {FALSE}]

\* The editor in a window of SmallRows rows: the buffer grows past it.
ViewportSession ==
    [keys |-> {Key("o"), Key("Esc"), Key("k"), Key("Enter")},
     text |-> {},
     rows |-> MaxLines,
     ahead |-> MaxQueue,
     size |-> <<TermCols, SmallRows>>,
     files |-> {NoFiles},
     builds |-> {FALSE}]

Sessions ==
    {EditSession, ResolverSession, CommandSession, TypeAheadSession, ViewportSession}

\* The editor at the start of session s, with the bindings `binds` registered.
Start(s, binds) ==
    /\ InitEditor
    /\ keybinds = binds
    /\ keys = s.keys
    /\ text = s.text
    /\ rows = s.rows
    /\ ahead = s.ahead
    /\ size = s.size
    /\ fs \in s.files
    /\ overflow_checks \in s.builds

Init == \E s \in Sessions : Start(s, default_keybinds)

\* tx.send(key_event): the event is queued while the receiving end exists;
\* otherwise send fails and the listener breaks out of its loop.
send(t, queue, k) ==
    IF t.receiver
    THEN [task |-> t, rx |-> Append(queue, k)]
    ELSE [task |-> [t EXCEPT !.listener = "stopped"], rx |-> queue]

\* Editor::key_event_listener, a pass of the loop in which poll found an
\* event: read() returned the key event k and tx.send was called.
key_event_listener(k) ==
    /\ task.listener = "running"
    /\ ~panicked
    /\ ~terminal.exited
    /\ Len(rx) < ahead
    /\ rx' = send(task, rx, k).rx
    /\ task' = send(task, rx, k).task
    /\ obs' = NoObs
    /\ UNCHANGED <<buffer, error, command, filename, dirty, stop, mode, position,
                   max_column, offset, size, current, numeric_prefix, elapsed, fs,
                   overflow_checks, panicked, keys, text, rows, ahead, terminal, keybinds>>

\* Editor::key_event_listener, a pass of the loop in which poll found
\* nothing: the task sleeps 10 ms (its only await, where it yields to the
\* runtime) and polls again.  Nothing of the state changes.
key_event_listener_idle ==
    /\ task.listener = "running"
    /\ ~terminal.exited
    /\ UNCHANGED vars

\* More than 1000 ms have passed since last_key_time.
Tick ==
    /\ ~panicked
    /\ ~terminal.exited
    /\ ~elapsed
    /\ elapsed' = TRUE
    /\ obs' = NoObs
    /\ UNCHANGED <<buffer, error, command, filename, dirty, stop, mode, position,
                   max_column, offset, size, current, numeric_prefix, rx, fs,
                   overflow_checks, panicked, keys, text, rows, ahead, terminal, task,
                   keybinds>>

\* A loop that never looks at stop.
running_forever(e) == TRUE

\* The condition of the loop of Editor::run.
running(e) == ~e.stop

\* One pass of the loop of Editor::run.
Iterate ==
    /\ ~panicked
    /\ ~terminal.exited
    /\ running(Editor)
    /\ \E e \in {run_iteration(Editor)} :
          /\ Bounded(e)
          /\ buffer' = e.buffer
          /\ error' = e.error
          /\ command' = e.command
          /\ filename' = e.filename
          /\ dirty' = e.dirty
          /\ stop' = e.stop
          /\ mode' = e.mode
          /\ position' = e.position
          /\ max_column' = e.max_column
          /\ offset' = e.offset
          /\ current' = e.current
          /\ numeric_prefix' = e.numeric_prefix
          /\ rx' = e.rx
          /\ elapsed' = e.elapsed
          /\ fs' = e.fs
          /\ panicked' = e.panicked
          /\ obs' = [iterated |-> TRUE, event |-> e.event, calls |-> e.calls,
                     ran |-> e.ran, fallback |-> e.fallback, rendered |-> e.rendered]
    /\ UNCHANGED <<size, overflow_checks, keys, text, rows, ahead, terminal, task,
                   keybinds>>

\* impl Drop for Display: ResetColor and LeaveAlternateScreen.
drop(t) == [t EXCEPT !.alternate = FALSE, !.drops = @ + 1]

\* The locals of Editor::run are dropped in the reverse order of their
\* declaration: first the runtime rt, whose drop waits until the listener
\* task yields (at its sleep) and then drops the task, and only then the
\* receiving end rx of the channel.
drop_run(t) ==
    [[t EXCEPT !.listener = IF @ = "running" THEN "cancelled" ELSE @]
        EXCEPT !.receiver = FALSE]

\* The process ends: the loop saw stop and run returned, or the main thread
\* panicked and unwinds.  Either way the locals of run and then the Editor,
\* and with it the Display, are dropped.
Exit ==
    /\ ~terminal.exited
    /\ ~running(Editor) \/ panicked
    /\ task' = drop_run(task)
    /\ terminal' = [drop(terminal) EXCEPT !.exited = TRUE]
    /\ obs' = NoObs
    /\ UNCHANGED <<buffer, error, command, filename, dirty, stop, mode, position,
                   max_column, offset, size, current, numeric_prefix, rx, elapsed, fs,
                   overflow_checks, panicked, keys, text, rows, ahead, keybinds>>

Next ==
    \/ \E k \in keys : key_event_listener(k)
    \/ key_event_listener_idle
    \/ Tick
    \/ Iterate
    \/ Exit

Spec == Init /\ [][Next]_vars

\* ------------------------------------- the dispatch with other bindings
\* Keymap::add_keybind registers any action under any sequence.  Here x is
\* bound to an action that returns Err and x y to the action of i, so that a
\* node with children carries an action that fails: it is executed by the
\* timeout and by a dead end.
failing_keybinds ==
    << [modes |-> {"NORMAL"}, sequence |-> <<Key("x")>>, action |-> "fail"],
       [modes |-> {"NORMAL"}, sequence |-> <<Key("x"), Key("y")>>, action |-> "i"],
       [modes |-> {"INSERT"}, sequence |-> <<Key("Esc")>>, action |-> "ic_Esc"] >>

FailureSession ==
    [keys |-> {Key("x"), Key("y"), Key("z"), Key("Esc")},
     text |-> {},
     rows |-> 1,
     ahead |-> MaxQueue,
     size |-> <<TermCols, TermRows>>,
     files |-> {NoFiles},
     builds |-> {FALSE}]

\* A prefix collision: g is bound (to the action of G) and is also the
\* prefix of g g (bound to the action of gg); j is bound at root.
collision_keybinds ==
    << [modes |-> {"NORMAL"}, sequence |-> <<Key("g")>>, action |-> "G"],
       [modes |-> {"NORMAL"}, sequence |-> <<Key("g"), Key("g")>>, action |-> "gg"],
       [modes |-> {"NORMAL"}, sequence |-> <<Key("j")>>, action |-> "j"] >>

CollisionSession ==
    [keys |-> {Key("g"), Key("j"), Key("x"), Key("2")},
     text |-> {},
     rows |-> 1,
     ahead |-> MaxQueue,
     size |-> <<TermCols, TermRows>>,
     files |-> {NoFiles},
     builds |-> {FALSE}]

InitBindings ==
    \/ Init
    \/ Start(FailureSession, failing_keybinds)
    \/ Start(CollisionSession, collision_keybinds)

SpecBindings == InitBindings /\ [][Next]_vars

\* line(row) of a buffer.
Line(buf, row) == buf[row + 1]

\* --------------------------------------------- the cursor on its own
\* The cursor operations applied directly, on buffers with lines of
\* different lengths.  Here obs is the operation last applied.
Example ==
    << <<"a", "b", "c", "d", "e", "f">>, <<"x", "y">>, <<"a", "b", "c", "d", "e", "f">> >>

CursorBuffers == {Example, << <<"a", "b">>, <<>> >>}

\* The column never exceeds the sticky column: validate_cursor assigns it
\* min(max_column, line length) at the end of every cursor operation.
InitCursor ==
    /\ buffer \in CursorBuffers
    /\ max_column \in 0..MaxJump
    /\ \E y \in 0..(Len(buffer) - 1) :
          \E x \in 0..Min(max_column, Len(Line(buffer, y))) : position = <<x, y>>
    /\ error = None
    /\ command = <<>>
    /\ filename = None
    /\ dirty = TRUE
    /\ stop = FALSE
    /\ mode = "NORMAL"
    /\ offset = <<0, 0>>
    /\ size = <<TermCols, TermRows>>
    /\ current = None
    /\ numeric_prefix = None
    /\ rx = <<>>
    /\ elapsed = FALSE
    /\ panicked = FALSE
    /\ fs = NoFiles
    /\ overflow_checks = FALSE
    /\ keys = {}
    /\ text = {}
    /\ rows = MaxLines
    /\ ahead = 0
    /\ terminal = Startup
    /\ task = Spawned
    /\ keybinds = default_keybinds
    /\ obs = [op |-> "none", a |-> 0, b |-> 0]

CursorStep(e, op, a, b) ==
    /\ position' = e.position
    /\ max_column' = e.max_column
    /\ panicked' = e.panicked
    /\ obs' = [op |-> op, a |-> a, b |-> b]
    /\ UNCHANGED <<buffer, error, command, filename, dirty, stop, mode, offset, size,
                   current, numeric_prefix, rx, elapsed, fs, overflow_checks, keys,
                   text, rows, ahead, terminal, task, keybinds>>

CursorMoveBy(dx, dy) == CursorStep(move_by(Editor, dx, dy), "move_by", dx, dy)

CursorMoveX(new_x) == CursorStep(move_x(Editor, new_x), "move_x", new_x, 0)

CursorMoveY(new_y) == CursorStep(move_y(Editor, new_y), "move_y", 0, new_y)

NextCursor ==
    \/ \E dx \in (-MaxDelta)..MaxDelta : \E dy \in (-MaxDelta)..MaxDelta : CursorMoveBy(dx, dy)
    \/ \E new_x \in 0..MaxJump : CursorMoveX(new_x)
    \/ \E new_y \in 0..MaxJump : CursorMoveY(new_y)

SpecCursor == InitCursor /\ [][NextCursor]_vars

\* --------------------------------------------- the display on its own
\* The cursor operations of Display (a Cursor move followed by
\* validate_offset) applied directly, in small windows, from the state
\* Display::new leaves: cursor and offset at (0, 0).
InitDisplay ==
    /\ buffer = Example
    /\ position = <<0, 0>>
    /\ max_column = 0
    /\ offset = <<0, 0>>
    /\ size \in (1..MaxWindow) \X (1..MaxWindow)
    /\ overflow_checks \in BOOLEAN
    /\ error = None
    /\ command = <<>>
    /\ filename = None
    /\ dirty = TRUE
    /\ stop = FALSE
    /\ mode = "NORMAL"
    /\ current = None
    /\ numeric_prefix = None
    /\ rx = <<>>
    /\ elapsed = FALSE
    /\ panicked = FALSE
    /\ fs = NoFiles
    /\ keys = {}
    /\ text = {}
    /\ rows = MaxLines
    /\ ahead = 0
    /\ terminal = Startup
    /\ task = Spawned
    /\ keybinds = default_keybinds
    /\ obs = [op |-> "none", a |-> 0, b |-> 0]

DisplayStep(e, op, a, b) ==
    /\ ~panicked
    /\ position' = e.position
    /\ max_column' = e.max_column
    /\ offset' = e.offset
    /\ panicked' = e.panicked
    /\ obs' = [op |-> op, a |-> a, b |-> b]
    /\ UNCHANGED <<buffer, error, command, filename, dirty, stop, mode, size,
                   current, numeric_prefix, rx, elapsed, fs, overflow_checks, keys,
                   text, rows, ahead, terminal, task, keybinds>>

DisplayCursorMoveBy(dx, dy) ==
    DisplayStep(cursor_move_by(Editor, dx, dy), "cursor_move_by", dx, dy)

DisplayCursorMoveX(new_x) ==
    DisplayStep(cursor_move_x(Editor, new_x), "cursor_move_x", new_x, 0)

DisplayCursorMoveY(new_y) ==
    DisplayStep(cursor_move_y(Editor, new_y), "cursor_move_y", 0, new_y)

NextDisplay ==
    \/ \E dx \in (-MaxDelta)..MaxDelta :
          \E dy \in (-MaxDelta)..MaxDelta : DisplayCursorMoveBy(dx, dy)
    \/ \E new_x \in 0..MaxJump : DisplayCursorMoveX(new_x)
    \/ \E new_y \in 0..MaxJump : DisplayCursorMoveY(new_y)

SpecDisplay == InitDisplay /\ [][NextDisplay]_vars

\* ------------------------------------------------------------- claims
\* The step is an iteration of the main loop.
Acted == obs'.iterated

\* The key event the step handed to the resolver is k.
Handled(k) == obs'.event = Some(k)

\* C1: in every reachable state 0 <= cursor.row < buffer.len() and
\* 0 <= cursor.column <= len(buffer[cursor.row]), file loads included.
C1_CursorBounds ==
    ~panicked =>
        /\ 0 <= position[2] /\ position[2] < Len(buffer)
        /\ 0 <= position[1] /\ position[1] <= Len(Line(buffer, position[2]))

\* C2: as long as no file has been loaded (the buffer comes from the initial
\* empty line, the INSERT-mode edits and o/O), the buffer keeps at least one
\* line; Delete at the end of the last line and Backspace at (0,0) remove no
\* line and leave the buffer as it was.
C2_Step ==
    /\ filename' = None => Len(buffer') >= 1
    /\ filename = None /\ Acted /\ obs'.fallback # None /\ mode' = "INSERT" => ~panicked'
    /\ /\ filename = None /\ mode' = "INSERT" /\ obs'.fallback = Some(Key("Delete"))
       /\ position[2] = Len(buffer) - 1
       /\ position[1] = Len(Line(buffer, position[2]))
       => buffer' = buffer
    /\ /\ filename = None /\ mode' = "INSERT" /\ obs'.fallback = Some(Key("Backspace"))
       /\ position = <<0, 0>>
       => buffer' = buffer

C2_NonEmptyBuffer == [][C2_Step]_vars

\* A Delete has just been handled in INSERT mode with the cursor left at the
\* end of the only line; a Backspace with the cursor left at (0,0).
C2_Witness ==
    /\ filename = None /\ mode = "INSERT" /\ ~panicked
    /\ obs.fallback = Some(Key("Delete"))
    /\ Len(buffer) = 1 /\ position = <<Len(buffer[1]), 0>>

\* C3: a pure vertical move (move_by with dx = 0, move_y) leaves max_column
\* alone and lands on column min(max_column, len(line(row))); max_column
\* changes only in move_x and in move_by with dx # 0; on the lines
\* ["abcdef", "xy", "abcdef"] with sticky column 5, moving down from row 0
\* lands on column 2 of row 1, and from row 1 or row 2 on column 5 of row 2.
PureVertical == obs'.op = "move_y" \/ (obs'.op = "move_by" /\ obs'.a = 0)

C3_Step ==
    /\ PureVertical =>
          /\ max_column' = max_column
          /\ position'[1] = Min(max_column, Len(Line(buffer, position'[2])))
    /\ max_column' # max_column =>
          obs'.op = "move_x" \/ (obs'.op = "move_by" /\ obs'.a # 0)
    /\ /\ buffer = Example /\ max_column = 5
       /\ obs'.op = "move_by" /\ obs'.a = 0 /\ obs'.b = 1
       => position' = IF position[2] = 0 THEN <<2, 1>> ELSE <<5, 2>>

C3_StickyColumn == [][C3_Step]_vars

\* Moved down onto the short line: column 2, the sticky column still 5.
C3_Witness ==
    /\ buffer = Example /\ obs.op = "move_by" /\ obs.a = 0 /\ obs.b = 1
    /\ position = <<2, 1>> /\ max_column = 5

\* The node reached by g in NORMAL mode: it has the child g and no action.
NodeG == KeyNode("NORMAL", <<Key("g")>>)

Root(m) == KeyNode(m, <<>>)

Range(seq) == {seq[i] : i \in 1..Len(seq)}

\* C4: in NORMAL mode with g pending and the timeout not yet passed, a
\* non-digit key that is neither a child of the g node nor bound at root
\* runs no action and leaves the pointer at root; the single forced
\* resolution found no action; the key ends up unresolved from root (passed
\* to the fallback unless it carries ALT or CONTROL, and dropped there):
\* buffer, cursor and mode are unchanged.
C4_Step ==
    \A k \in keys :
        /\ Acted /\ Handled(k)
        /\ mode = "NORMAL" /\ current = Some(NodeG) /\ ~elapsed
        /\ event_to_digit(k) = None
        /\ children_get(NodeG, k) = None
        /\ children_get(Root("NORMAL"), k) = None
        => /\ obs'.ran = <<>>
           /\ current' = None
           /\ obs'.calls = <<[site |-> "dead_end", node |-> Some(NodeG), action |-> None,
                              result |-> "", current |-> None]>>
           /\ k.modifiers \cap {"ALT", "CONTROL"} = {} => obs'.fallback = Some(k)
           /\ buffer' = buffer /\ position' = position /\ max_column' = max_column
           /\ mode' = mode /\ ~panicked'

C4_DeadEnd == [][C4_Step]_vars

\* x has just flushed a pending g.
C4_Witness ==
    /\ obs.iterated /\ obs.event = Some(Key("x")) /\ mode = "NORMAL"
    /\ Len(obs.calls) = 1 /\ obs.calls[1].site = "dead_end"
    /\ obs.calls[1].node = Some(NodeG)
    /\ current = None /\ obs.fallback = Some(Key("x"))

\* C5: g at root starts a pending sequence at the g node and runs nothing;
\* with g pending and more than 1000 ms passed, the next iteration first
\* force-resolves the pointer (no action at the g node, pointer back at
\* root); with no event queued the pointer stays at root, and a g dequeued
\* in that iteration leaves the pointer at the g node; gg has not run.
C5_Step ==
    /\ Acted /\ mode = "NORMAL" /\ current = None /\ Handled(Key("g"))
       => current' = Some(NodeG) /\ obs'.ran = <<>>
    /\ Acted /\ mode = "NORMAL" /\ current = Some(NodeG) /\ elapsed
       => /\ Len(obs'.calls) >= 1
          /\ obs'.calls[1] = [site |-> "timeout", node |-> Some(NodeG), action |-> None,
                              result |-> "", current |-> None]
          /\ "gg" \notin Range(obs'.ran)
          /\ obs'.event = None => current' = None
          /\ Handled(Key("g")) => current' = Some(NodeG)

C5_Timeout == [][C5_Step]_vars

\* The stale g was flushed and the g dequeued in the same iteration is pending.
C5_Witness ==
    /\ obs.iterated /\ obs.event = Some(Key("g"))
    /\ Len(obs.calls) = 1 /\ obs.calls[1].site = "timeout"
    /\ obs.calls[1].node = Some(NodeG)
    /\ current = Some(NodeG) /\ obs.ran = <<>>

\* C6: in NORMAL mode at root an unmodified digit d becomes the repeat
\* prefix and runs nothing; j then runs d times (once with no prefix), the
\* row becomes min(row + d, buffer.len() - 1), and the prefix is empty
\* afterwards.
C6_Step ==
    Acted /\ mode = "NORMAL" /\ current = None /\ ~panicked' =>
        /\ \A k \in keys :
              Handled(k) /\ k.modifiers = {} /\ k.code \in Digits
              => /\ numeric_prefix' = Some(DigitValue(k.code))
                 /\ obs'.ran = <<>> /\ current' = None /\ position' = position
        /\ Handled(Key("j")) =>
              LET d == IF numeric_prefix = None THEN 1 ELSE Unwrap(numeric_prefix)
              IN /\ obs'.ran = [i \in 1..d |-> "j"]
                 /\ position'[2] = Min(position[2] + d, Len(buffer) - 1)
                 /\ numeric_prefix' = None

C6_Repeat == [][C6_Step]_vars

\* 2 j from row 0 of a three-line buffer: j ran twice, the cursor is on row 2.
C6_Witness ==
    /\ obs.iterated /\ obs.event = Some(Key("j")) /\ obs.ran = <<"j", "j">>
    /\ Len(buffer) = 3 /\ position[2] = 2 /\ numeric_prefix = None

\* C7: a key event that advances the pointer to a node with no children
\* runs the node's action in the same handle_key_event call and leaves the
\* pointer at root.
C7_Step ==
    \A k \in keys :
        LET from == IF current = None THEN Root(mode) ELSE Unwrap(current)
            to == children_get(from, k)
        IN /\ Acted /\ Handled(k) /\ ~panicked'
           /\ current = None \/ ~elapsed
           /\ to # None
           /\ node_is_leaf(Unwrap(to))
           => /\ Unwrap(node_action(Unwrap(to))) \in Range(obs'.ran)
              /\ current' = None

C7_LeafImmediacy == [][C7_Step]_vars

\* C8: in INSERT mode an unbound key event with CONTROL or ALT changes
\* neither the buffer nor the cursor and is not passed to the fallback.
C8_Step ==
    \A k \in keys :
        /\ Acted /\ Handled(k) /\ mode = "INSERT"
        /\ k.modifiers \cap {"CONTROL", "ALT"} # {}
        /\ children_get(IF current = None THEN Root(mode) ELSE Unwrap(current), k) = None
        /\ children_get(Root(mode), k) = None
        => /\ buffer' = buffer
           /\ position' = position /\ max_column' = max_column
           /\ obs'.fallback = None

C8_ModifierExclusion == [][C8_Step]_vars

\* Control+a has just been handled in INSERT mode on a line with text.
C8_Witness ==
    /\ obs.iterated /\ obs.event = Some(Ctrl("a")) /\ mode = "INSERT"
    /\ Len(buffer) >= 1 /\ Len(buffer[1]) >= 1 /\ position[1] >= 1

\* C9: every execute_keymap_action call leaves the pointer at root when it
\* returns, and after an iteration that invoked an action the pointer is at
\* root.
C9_PointerReset ==
    obs.iterated /\ ~panicked =>
        /\ \A i \in 1..Len(obs.calls) : obs.calls[i].current = None
        /\ obs.ran # <<>> => current = None

\* C10: an unbound printable character without ALT/CONTROL is inserted at
\* the cursor in INSERT mode (the column advances by one) and appended to
\* the command string in COMMAND mode, digits included.
C10_Step ==
    \A k \in keys :
        /\ Acted /\ Handled(k) /\ ~panicked'
        /\ IsChar(k) /\ k.modifiers \cap {"CONTROL", "ALT"} = {}
        /\ current = None
        /\ children_get(Root(mode), k) = None
        => /\ mode = "INSERT" =>
                 /\ buffer' = [buffer EXCEPT
                                  ![position[2] + 1] = InsertAt(@, position[1], k.code)]
                 /\ position' = <<position[1] + 1, position[2]>>
           /\ mode = "COMMAND" => command' = Append(command, k.code)

C10_PrintableFallback == [][C10_Step]_vars

\* The fallback has just been given the unmodified key k in INSERT mode, with
\* the cursor inside the buffer, and the editor did not panic.
InsertFallback(k) ==
    /\ Acted /\ mode = "INSERT" /\ obs'.fallback = Some(Key(k)) /\ ~panicked'
    /\ position[2] < Len(buffer)
    /\ position[1] <= Len(Line(buffer, position[2]))

\* C11: an unresolved Enter in INSERT mode with the cursor at (x, y) cuts
\* line y to its first x bytes, inserts the remainder as the new line y+1
\* and leaves the cursor at row y+1, column 0.
C11_Step ==
    InsertFallback("Enter") =>
        LET x == position[1]
            y == position[2]
            line == Line(buffer, y)
        IN /\ buffer' = InsertAt([buffer EXCEPT ![y + 1] = SubSeq(line, 1, x)],
                                 y + 1, SubSeq(line, x + 1, Len(line)))
           /\ position' = <<0, y + 1>>

C11_InsertEnter == [][C11_Step]_vars

\* C12: Backspace in INSERT mode at column x > 0 removes the character at
\* x-1 and moves the cursor to column x-1; at column 0 of row y > 0 it joins
\* line y onto line y-1 and leaves the cursor at row y-1, at the previous
\* length of line y-1; at (0, 0) it changes nothing.
C12_Step ==
    InsertFallback("Backspace") =>
        LET x == position[1]
            y == position[2]
        IN IF x > 0
           THEN /\ buffer' = [buffer EXCEPT ![y + 1] = RemoveAt(@, x - 1)]
                /\ position' = <<x - 1, y>>
           ELSE IF y > 0
           THEN /\ buffer' = RemoveAt([buffer EXCEPT ![y] = @ \o buffer[y + 1]], y)
                /\ position' = <<Len(buffer[y]), y - 1>>
           ELSE buffer' = buffer /\ position' = position

C12_InsertBackspace == [][C12_Step]_vars

\* C13: the channel is a FIFO queue between the listener and the main loop.
\* A step of the listener appends the event it read at the back of the
\* channel and touches nothing before it.  An iteration of the main loop on
\* an empty channel completes with no event (it does not wait); on a
\* non-empty channel it hands the resolver the front event and removes
\* exactly that one, or, when the timeout resolution failed, hands over
\* nothing and leaves the channel as it is.  Hence the events handed to the
\* resolver, followed by the channel, are always the events the listener
\* read, in order.
C13_Step ==
    /\ ~Acted => rx' = rx \/ \E k \in keys : rx' = Append(rx, k)
    /\ Acted =>
          IF rx = <<>>
          THEN obs'.event = None /\ rx' = rx
          ELSE \/ obs'.event = Some(Head(rx)) /\ rx' = Tail(rx)
               \/ /\ obs'.event = None /\ rx' = rx
                  /\ Len(obs'.calls) = 1 /\ obs'.calls[1].site = "timeout"
                  /\ obs'.calls[1].result # "" \/ panicked'

C13_Fifo == [][C13_Step]_vars

\* With three events typed ahead, the first was handed over and the other
\* two, different from each other, are still queued in the order typed.
C13_Witness ==
    /\ obs.iterated /\ obs.event = Some(Key("g"))
    /\ rx = <<Key("j"), Key("2")>>

\* The execute_keymap_action calls of the iteration just taken that returned
\* Err.
FailedCalls == {i \in 1..Len(obs'.calls) : obs'.calls[i].result # ""}

\* C14: when an action returns Err at any execution site, the iteration
\* stores the error text in the banner, sets dirty (so it renders, and
\* leaves dirty cleared), leaves stop unchanged, and the loop goes on: the
\* main thread neither stopped nor panicked.
C14_Step ==
    Acted =>
        \A i \in FailedCalls :
            /\ error' = Some(obs'.calls[i].result)
            /\ obs'.rendered /\ ~dirty'
            /\ stop' = stop
            /\ running(Editor)' /\ ~panicked'

C14_NonFatal == [][C14_Step]_vars

\* The forced resolution by timeout has just run an action that failed.
C14_Witness ==
    /\ obs.iterated /\ Len(obs.calls) = 1
    /\ obs.calls[1].site = "timeout" /\ obs.calls[1].result = "failed"
    /\ error = Some("failed") /\ obs.rendered /\ ~stop /\ ~panicked

\* C15: a step takes the banner from set to empty only if it is an
\* iteration that handled Enter and invoked the NORMAL-mode <CR> action; no
\* other key, no timeout resolution and no mode change clears it.
C15_Step ==
    error # None /\ error' = None =>
        /\ Acted /\ Handled(Key("Enter"))
        /\ "n_CR" \in Range(obs'.ran)

C15_BannerPersistence == [][C15_Step]_vars

\* The banner set by a failed command is still there after the keys that
\* left COMMAND mode and entered INSERT mode.
C15_Witness ==
    /\ obs.iterated /\ obs.event = Some(Key("o")) /\ mode = "INSERT"
    /\ error = Some("No filename specified")

\* C16: once stop is set it stays set, no step after that is an iteration
\* of the main loop (the loop exits at the top of the next iteration, so
\* nothing more is dequeued or handed to the resolver), and the events in
\* the channel stay there.
C16_Step ==
    stop =>
        /\ stop'
        /\ ~Acted
        /\ IsPrefix(rx, rx')

C16_StopFlag == [][C16_Step]_vars

\* The process ended on stop with an event still queued.
C16_Witness ==
    /\ stop /\ ~panicked /\ terminal.exited /\ Len(rx) > 0

\* C17: the COMMAND-mode command `e <filename>` naming a file that does not
\* exist returns no error, associates the filename and leaves the buffer
\* with exactly one empty line.
C17_Step ==
    \A name \in FileNames :
        /\ Acted /\ Handled(Key("Enter")) /\ mode = "COMMAND"
        /\ "c_CR" \in Range(obs'.ran)
        /\ split_whitespace(command) = << <<"e">>, name >>
        /\ ~exists(Editor, name)
        => /\ FailedCalls = {}
           /\ error' = error
           /\ filename' = Some(name)
           /\ buffer' = << <<>> >>

C17_MissingFileLoad == [][C17_Step]_vars

\* C18: once the process has ended, on whichever path (stop, or a panic of
\* the main thread), the terminal has been restored: the alternate screen is
\* left, raw mode is disabled, and the Display guard ran exactly once.
C18_TerminalRestored ==
    terminal.exited =>
        /\ ~terminal.alternate
        /\ ~terminal.raw
        /\ terminal.drops = 1

\* k is a digit key without modifiers.
PlainDigit(k) == k.modifiers = {} /\ k.code \in Digits

\* C19: in NORMAL mode at root, an unmatched digit typed while a repeat
\* prefix n is held makes the prefix 10 * n + digit (the count that the next
\* action then consumes).
C19_Step ==
    \A k \in keys :
        /\ Acted /\ Handled(k) /\ PlainDigit(k)
        /\ mode = "NORMAL" /\ current = None
        /\ children_get(Root(mode), k) = None
        /\ numeric_prefix # None
        => numeric_prefix' = Some(10 * Unwrap(numeric_prefix) + DigitValue(k.code))

C19_Accumulation == [][C19_Step]_vars

\* C20: traverse applied to an unmatched event consumes it into the repeat
\* prefix (returns nothing, pointer unmoved) only when the pointer is at root
\* and the event is an unmodified digit; otherwise it returns the event,
\* leaves the pointer where it was and leaves the prefix unchanged.
C20_DigitRule ==
    ~panicked /\ ~terminal.exited =>
        \A k \in keys :
            LET from == IF current = None THEN Root(mode) ELSE Unwrap(current)
                t == traverse(Editor, k)
            IN children_get(from, k) = None =>
                  IF current = None /\ PlainDigit(k)
                  THEN /\ t.unresolved = None
                       /\ t.current = current
                       /\ t.numeric_prefix # None
                  ELSE /\ t.unresolved = Some(k)
                       /\ t.current = current
                       /\ t.numeric_prefix = numeric_prefix

\* How often the iteration just taken invoked action a.
Invocations(a) == Cardinality({i \in 1..Len(obs'.ran) : obs'.ran[i] = a})

\* The node reached by g g in NORMAL mode.
NodeGG == KeyNode("NORMAL", <<Key("g"), Key("g")>>)

\* C21: with g bound to B and g g bound to A in NORMAL mode, the g node
\* keeps both its action B and its child; with g pending and no repeat
\* prefix, a key that is not a child of the g node runs B exactly once and is
\* then interpreted from root (a root binding of the key runs, or the pointer
\* moves to its root child, or it stays at root); more than 1000 ms of
\* silence run B exactly once and leave the pointer at root; g before the
\* timeout runs A exactly once and B not at all.
C21_Step ==
    node_action(NodeG) # None /\ node_action(NodeGG) # None =>
        LET B == Unwrap(node_action(NodeG))
            A == Unwrap(node_action(NodeGG))
            Pending == /\ Acted /\ mode = "NORMAL" /\ current = Some(NodeG)
                       /\ numeric_prefix = None /\ ~panicked'
        IN /\ children_get(NodeG, Key("g")) = Some(NodeGG)
           /\ \A k \in keys :
                 Pending /\ ~elapsed /\ Handled(k) /\ children_get(NodeG, k) = None
                 => /\ Invocations(B) = 1
                    /\ obs'.ran[1] = B
                    /\ LET child == children_get(Root("NORMAL"), k)
                       IN IF child = None THEN current' = None
                          ELSE IF node_is_leaf(Unwrap(child))
                          THEN /\ obs'.ran = <<B, Unwrap(node_action(Unwrap(child)))>>
                               /\ current' = None
                          ELSE current' = child
           /\ Pending /\ elapsed /\ obs'.event = None
              => obs'.ran = <<B>> /\ current' = None
           /\ Pending /\ ~elapsed /\ Handled(Key("g"))
              => obs'.ran = <<A>> /\ current' = None

C21_PrefixCollision == [][C21_Step]_vars

\* The forced resolutions by timeout of the iteration just taken.
TimeoutCalls == {i \in 1..Len(obs'.calls) : obs'.calls[i].site = "timeout"}

\* C22: a pending sequence never blocks the editor for good.  The loop of
\* Editor::run is a busy loop, so once more than 1000 ms have passed since the
\* last consumed key an iteration follows; the claim is that this iteration,
\* finding the pointer away from root, makes the forced resolution first,
\* exactly once, and that the resolution leaves the pointer at root, so that
\* no later iteration makes it again for the same prefix.
C22_Step ==
    Acted /\ current # None /\ elapsed /\ ~panicked' =>
        /\ Cardinality(TimeoutCalls) = 1
        /\ obs'.calls[1].site = "timeout"
        /\ obs'.calls[1].node = current
        /\ obs'.calls[1].current = None

C22_NoPermanentBlocking == [][C22_Step]_vars

\* C23: the listener task stops only by breaking out of its loop after a
\* push that failed because the receiving end was gone: while the receiving
\* end exists the task stays in its loop (polling, and yielding when nothing
\* is ready); every key event it reads is pushed, once, at the back of the
\* channel; and once a push has failed nothing more is pushed.
C23_Step ==
    /\ task.listener = "running" /\ task'.listener # "running"
       => ~task.receiver /\ task'.listener = "stopped" /\ rx' = rx
    /\ task.listener = "running" /\ task.receiver /\ ~terminal.exited
       => ENABLED key_event_listener_idle
    /\ \A k \in keys :
          key_event_listener(k) /\ task.receiver => rx' = Append(rx, k)
    /\ task.listener = "stopped" => rx' = rx \/ Acted

C23_ListenerTermination == [][C23_Step]_vars

\* C24: in every reachable state the cursor is inside the window: the offset
\* is at most the cursor and the cursor is less than the offset plus the
\* size of the window, by column and by row, whichever operation moved the
\* cursor last (so that cursor minus offset, the screen position render
\* computes, is neither negative nor outside the window).
C24_Viewport ==
    ~panicked =>
        /\ offset[1] <= position[1] /\ position[1] < offset[1] + size[1]
        /\ offset[2] <= position[2] /\ position[2] < offset[2] + size[2]

\* C25: validate_offset scrolls each axis on its own, by the least amount
\* that brings the cursor back into the window, and never underflows: after
\* a cursor operation of Display the column offset is the cursor column if
\* that is left of the window, the cursor column minus the columns plus one
\* if it is right of it, and unchanged otherwise; the same for the row
\* offset with the cursor row and the rows; in particular a move past the
\* right edge increases the column offset and leaves the row offset alone;
\* and no build panics on an underflow.
C25_Step ==
    LET Scrolled(o, p, n) == IF p < o THEN p ELSE IF p >= o + n THEN p - n + 1 ELSE o
        px == position'[1]
        py == position'[2]
    IN /\ ~panicked'
       /\ offset'[1] = Scrolled(offset[1], px, size[1])
       /\ offset'[2] = Scrolled(offset[2], py, size[2])
       /\ px >= offset[1] + size[1] /\ offset[2] <= py /\ py < offset[2] + size[2]
          => offset'[1] > offset[1] /\ offset'[2] = offset[2]

C25_Scrolling == [][C25_Step]_vars

\* The iteration just taken passed a key to the fallback in COMMAND mode and
\* the command string is the old one with the character appended, or, for
\* Backspace, with its last character removed.
CommandEdit ==
    /\ obs'.fallback # None /\ mode = "COMMAND" /\ mode' = "COMMAND"
    /\ LET k == Unwrap(obs'.fallback)
       IN IF IsChar(k) THEN command' = Append(command, k.code)
          ELSE k.code = "Backspace" /\ command' = SubSeq(command, 1, Len(command) - 1)

\* C26: outside COMMAND mode the command string is empty; it changes only
\* in an iteration of the main loop, either by a COMMAND-mode fallback key
\* (a character appended, Backspace removing the last one) or by being
\* emptied by the Esc action or the COMMAND-mode <CR> action; Esc leaves
\* COMMAND mode with the string empty, and the <CR> action leaves it empty
\* on every outcome (unknown verb, quit, failed command).
C26_Step ==
    /\ command' # command =>
          /\ Acted
          /\ \/ CommandEdit
             \/ command' = <<>> /\ Range(obs'.ran) \cap {"ic_Esc", "c_CR"} # {}
    /\ Acted /\ ~panicked' /\ "ic_Esc" \in Range(obs'.ran)
       => command' = <<>> /\ mode' = "NORMAL"
    /\ Acted /\ ~panicked' /\ "c_CR" \in Range(obs'.ran) => command' = <<>>

C26_CommandConfinement ==
    /\ [](mode # "COMMAND" => command = <<>>)
    /\ [][C26_Step]_vars

\* Enter has just run a command that failed: the banner is set, the mode is
\* still COMMAND and the command string is empty.
C26_Witness ==
    /\ obs.iterated /\ obs.event = Some(Key("Enter")) /\ obs.ran = <<"c_CR">>
    /\ error = Some("No filename specified")
    /\ mode = "COMMAND" /\ command = <<>>

\* C27: a completed binding always fires: every execute_keymap_action call
\* made at a node that carries an action (at a leaf, at a dead end or by
\* timeout) invokes that action at least once, whatever digits were typed
\* before; in particular an iteration that handles Esc in INSERT or COMMAND
\* mode ends in NORMAL mode, and one that handles i in NORMAL mode ends in
\* INSERT mode.
C27_Step ==
    Acted /\ ~panicked' =>
        /\ \A i \in 1..Len(obs'.calls) :
              obs'.calls[i].action # None
              => Unwrap(obs'.calls[i].action) \in Range(obs'.ran)
        /\ Handled(Key("Esc")) /\ mode \in {"INSERT", "COMMAND"} => mode' = "NORMAL"
        /\ Handled(Key("i")) /\ mode = "NORMAL" => mode' = "INSERT"

C27_BindingFires == [][C27_Step]_vars

====
